---- MODULE Spec2Model ----
(***************************************************************************)
(* Detection pipeline of the biblical quotation detector:                  *)
(*   QuotationDetector.detect (src/src/search/detector.py),                *)
(*   ClaudeClient.verify_quotation (src/src/llm/claude_client.py),         *)
(*   the /detect route (src/src/api/routes/detection.py).                  *)
(* Similarity scores are hundredths (0.95 is 95).  Greek text is a         *)
(* sequence of character codes, see the character classes below.           *)
(***************************************************************************)
EXTENDS Integers, Sequences, FiniteSets, TLC

\* ------------------------------------------------------------------ bounds
\* longest hit list the vector index hands back in the model
MaxCands == 4
\* lines of a reply given to the parser on its own
MaxLines == 3
\* code points of a string given to the normalizer
MaxChars == 4
\* words of a text given to the word overlap
MaxWords == 2
\* texts of a batch request
MaxBatch == 2
\* verses handed to one add_verses_batch call
MaxIngest == 3
\* number of verses held by the vector index in the model
NumVerses == 4

\* ------------------------------------------------------ character classes
\* 0 space; 1..8 lowercase letters (8 is medial sigma); 9 final sigma;
\* 11..18 capitals of 1..8; 21..27 precomposed accented lowercase 1..7;
\* 30 a combining mark; 40 punctuation; 41 punctuation that is case-ignorable
\* (apostrophe, full stop, ano teleia); 42 the underscore.
SPACE == 0
SIGMA == 8
FINAL_SIGMA == 9
CAP_SIGMA == 18
MARK == 30
PUNCT == 40
APOSTROPHE == 41
UNDERSCORE == 42

IsLetter(c) == c \in 1..9 \/ c \in 11..18 \/ c \in 21..27

\* canonical decomposition of one code point
Decompose(c) == IF c \in 21..27 THEN <<c - 20, MARK>> ELSE <<c>>

RECURSIVE NFD(_)
NFD(s) == IF s = <<>> THEN <<>> ELSE Decompose(Head(s)) \o NFD(Tail(s))

NotCombining(c) == c # MARK
StripMarks(s) == SelectSeq(s, NotCombining)

CaseIgnorable(c) == c \in {MARK, APOSTROPHE}

\* the nearest code point before i that is not case-ignorable is a letter
RECURSIVE CasedBefore(_, _)
CasedBefore(s, i) ==
    IF i < 1 THEN FALSE
    ELSE IF CaseIgnorable(s[i]) THEN CasedBefore(s, i - 1)
    ELSE IsLetter(s[i])

\* the nearest code point after i that is not case-ignorable is a letter
RECURSIVE CasedAfter(_, _)
CasedAfter(s, i) ==
    IF i > Len(s) THEN FALSE
    ELSE IF CaseIgnorable(s[i]) THEN CasedAfter(s, i + 1)
    ELSE IsLetter(s[i])

\* str.lower(): a capital sigma that ends a word becomes final sigma
Lower(s) ==
    [i \in 1..Len(s) |->
        IF s[i] = CAP_SIGMA
        THEN IF CasedBefore(s, i - 1) /\ ~CasedAfter(s, i + 1)
             THEN FINAL_SIGMA ELSE SIGMA
        ELSE IF s[i] \in 11..17 THEN s[i] - 10 ELSE s[i]]

FoldSigma(s) == [i \in 1..Len(s) |-> IF s[i] = FINAL_SIGMA THEN SIGMA ELSE s[i]]

LetterOrSpace(c) == IsLetter(c) \/ c = SPACE
StripPunct(s) == SelectSeq(s, LetterOrSpace)

RECURSIVE CollapseSpaces(_)
CollapseSpaces(s) ==
    IF Len(s) < 2 THEN s
    ELSE IF s[1] = SPACE /\ s[2] = SPACE THEN CollapseSpaces(Tail(s))
    ELSE <<s[1]>> \o CollapseSpaces(Tail(s))

RECURSIVE TrimLeft(_)
TrimLeft(s) == IF s # <<>> /\ Head(s) = SPACE THEN TrimLeft(Tail(s)) ELSE s

RECURSIVE TrimRight(_)
TrimRight(s) ==
    IF s # <<>> /\ s[Len(s)] = SPACE THEN TrimRight(SubSeq(s, 1, Len(s) - 1)) ELSE s

Trim(s) == TrimRight(TrimLeft(s))

\* re.sub(r'[^\w\s]', '', text): word characters and whitespace stay
WordOrSpace(c) == IsLetter(c) \/ c = UNDERSCORE \/ c = SPACE
RemoveNonWord(s) == SelectSeq(s, WordOrSpace)

\* variant: the ends are trimmed before the punctuation is removed
normalize_StripFirst(s) == RemoveNonWord(Trim(Lower(StripMarks(NFD(s)))))

\* GreekProcessor.normalize of scripts/process_greek.py
normalize(s) == Trim(RemoveNonWord(Lower(StripMarks(NFD(s)))))

\* _normalize_greek of the detector module
normalize_greek(s) ==
    Trim(CollapseSpaces(StripPunct(FoldSigma(Lower(StripMarks(NFD(s)))))))

\* str.split(): the whitespace-separated tokens, as a sequence
RECURSIVE SplitFrom(_, _)
SplitFrom(s, cur) ==
    IF s = <<>> THEN (IF cur = <<>> THEN <<>> ELSE <<cur>>)
    ELSE IF Head(s) = SPACE
         THEN (IF cur = <<>> THEN <<>> ELSE <<cur>>) \o SplitFrom(Tail(s), <<>>)
         ELSE SplitFrom(Tail(s), Append(cur, Head(s)))

Split(s) == SplitFrom(s, <<>>)

MIN_WORD_LEN == 3

\* variant: the tokens must be longer than min_len
LongTokens_Exclusive(s, min_len) ==
    LET toks == Split(normalize_greek(s))
    IN  {toks[i] : i \in {j \in 1..Len(toks) : Len(toks[j]) > min_len}}

LongTokens(s, min_len) ==
    LET toks == Split(normalize_greek(s))
    IN  {toks[i] : i \in {j \in 1..Len(toks) : Len(toks[j]) >= min_len}}

\* variant: every shared token counts, whatever its length
count_shared_words_AnyLength(a, b) == Cardinality(LongTokens(a, 1) \cap LongTokens(b, 1))

\* _count_shared_words of the detector module
count_shared_words(a, b) ==
    Cardinality(LongTokens(a, MIN_WORD_LEN) \cap LongTokens(b, MIN_WORD_LEN))

\* ------------------------------------------------------------------ corpus
W1 == <<1, 2, 3>>
W2 == <<2, 3, 4>>
W3 == <<3, 4, 5>>
W4 == <<4, 5, 6>>
W5 == <<5, 6, 7>>
W6 == <<6, 7, 8>>
SHORT == <<1, 2>>
SP == <<SPACE>>

\* the normalized Greek stored for a verse
VerseChars(id) ==
    CASE id = 1 -> W1 \o SP \o SHORT \o SP \o W2 \o SP \o W3 \o SP \o W4 \o SP \o W5 \o SP \o W6
      [] id = 2 -> W1 \o SP \o W2 \o SP \o W3 \o SP \o <<7, 1, 1>>
      [] id = 3 -> W1 \o SP \o W2 \o SP \o SHORT \o SP \o <<7, 2, 2>>
      [] OTHER  -> <<7, 3, 3>> \o SP \o SHORT \o SP \o <<7, 4, 4>>

\* verses 1 and 3 are the same verse in two source editions
VerseReference(id) ==
    CASE id = 1 -> "John 1:1"
      [] id = 2 -> "Matthew 5:3"
      [] id = 3 -> "John 1:1"
      [] OTHER  -> "Mark 1:1"

VerseBook(id) ==
    CASE id = 1 -> "John" [] id = 2 -> "Matthew" [] id = 3 -> "John" [] OTHER -> "Mark"

VerseChapter(id) == IF id = 2 THEN 5 ELSE 1

VerseNumber(id) == IF id = 2 THEN 3 ELSE 1

VerseSource(id) == IF id = 3 THEN "SBL" ELSE "SR"

\* input passages: the first quotes verse 1 with capitals, accents, a final
\* sigma and punctuation; the second shares only a short word with the index
QuoteText ==
    <<11, 22, 3>> \o SP \o SHORT \o SP \o <<2, 23, 4, PUNCT>> \o SP \o <<3, 4, MARK, 5>> \o SP
        \o <<14, 15, 16>> \o SP \o W5 \o SP \o <<6, 7, FINAL_SIGMA, PUNCT>>

ProseText == <<1, 1, 1>> \o SP \o SHORT \o SP \o <<2, 2, 2>>

\* Greek strings are held in the state by handle; GreekChars is the content
Texts == {"quote", "prose"}

\* payload "text" of a verse
VerseText(id) ==
    CASE id = 1 -> "v1" [] id = 2 -> "v2" [] id = 3 -> "v3" [] OTHER -> "v4"

GreekChars(t) ==
    CASE t = "quote" -> QuoteText
      [] t = "prose" -> ProseText
      [] t = "v1" -> VerseChars(1)
      [] t = "v2" -> VerseChars(2)
      [] t = "v3" -> VerseChars(3)
      [] OTHER -> VerseChars(4)

\* shared words (length >= 3) of an input passage and a stored verse text
Overlap(text, verse_text) == count_shared_words(GreekChars(text), GreekChars(verse_text))

\* --------------------------------------------------------------- retrieval
\* similarity levels the index reports, best first (hundredths)
ScoreLevels == <<95, 90, 87, 80, 77, 70, 67, 60>>

MIN_SIMILARITY == 70
TOP_K == 10
\* similarity floors a detector is constructed with
SimilarityFloors == {50, MIN_SIMILARITY}

Min(a, b) == IF a < b THEN a ELSE b
Max(a, b) == IF a > b THEN a ELSE b

\* one formatted hit of QdrantManager.search
Candidate(id, score) ==
    [id |-> id,
     score |-> score,
     text |-> VerseText(id),
     reference |-> VerseReference(id),
     book |-> VerseBook(id),
     chapter |-> VerseChapter(id),
     verse |-> VerseNumber(id),
     source |-> VerseSource(id)]

\* ranked hit lists of the index: n hits, the best at level k, the scores
\* either all equal or falling one level per rank, the verses in id order
\* starting at verse r
RawHitLists ==
    {[i \in 1..n |->
        Candidate(((r + i - 2) % NumVerses) + 1,
                  ScoreLevels[IF falling THEN Min(k + i - 1, Len(ScoreLevels)) ELSE k])] :
        n \in 0..MaxCands, k \in 1..Len(ScoreLevels),
        falling \in BOOLEAN, r \in 1..NumVerses}

\* QdrantManager.search: hits at or above score_threshold, at most limit
Search(raw, limit, score_threshold) ==
    LET kept == SelectSeq(raw, LAMBDA c : c.score >= score_threshold)
    IN  SubSeq(kept, 1, Min(Len(kept), limit))

\* DetectionSource built from a candidate
ToSource(c) ==
    [reference |-> c.reference,
     book |-> c.book,
     chapter |-> c.chapter,
     verse |-> c.verse,
     greek_text |-> c.text,
     similarity_score |-> c.score,
     source_edition |-> c.source]

ToSources(cands) == [i \in 1..Len(cands) |-> ToSource(cands[i])]

\* best_match = None
NoSource ==
    [reference |-> "", book |-> "", chapter |-> 0, verse |-> 0,
     greek_text |-> "", similarity_score |-> 0, source_edition |-> ""]

TOP_SOURCES == 3
FirstN(s, n) == SubSeq(s, 1, Min(Len(s), n))

\* ---------------------------------------------------------- classification
DetectionResult(text, is_q, conf, mt, srcs, best, expl) ==
    [input_text |-> text,
     is_quotation |-> is_q,
     confidence |-> conf,
     match_type |-> mt,
     sources |-> srcs,
     best_match |-> best,
     explanation |-> expl]

\* variant: the early return reports the classifier's confidence 60
EmptyResult_Conf60(text) ==
    DetectionResult(text, FALSE, 60, "non_biblical", <<>>, NoSource,
                    <<"No similar biblical texts found in vector search.">>)

\* detect's early return when the search yields nothing
EmptyResult(text) ==
    DetectionResult(text, FALSE, 90, "non_biblical", <<>>, NoSource,
                    <<"No similar biblical texts found in vector search.">>)

\* the if/elif ladder of _heuristic_classify: <<match_type, confidence, is_quotation>>
ScoreClass(top_score) ==
    IF top_score >= 95 THEN <<"exact", 95, TRUE>>
    ELSE IF top_score >= 85 THEN <<"close_paraphrase", 85, TRUE>>
    ELSE IF top_score >= 75 THEN <<"loose_paraphrase", 70, TRUE>>
    ELSE IF top_score >= 65 THEN <<"allusion", 55, TRUE>>
    ELSE <<"non_biblical", 60, FALSE>>

heuristic_classify(text, candidates, sources) ==
    IF candidates = <<>>
    THEN DetectionResult(text, FALSE, 90, "non_biblical", <<>>, NoSource,
                         <<"No candidates found.">>)
    ELSE LET top_score == candidates[1].score
             best_match == IF sources # <<>> THEN sources[1] ELSE NoSource
             cls == ScoreClass(top_score)
         IN  DetectionResult(text, cls[3], cls[2], cls[1],
                             FirstN(sources, TOP_SOURCES), best_match,
                             <<"Heuristic classification based on similarity score",
                               top_score, best_match.reference>>)

\* ------------------------------------------------------------ LLM verifier
\* A reply body is a sequence of lines; a line is held already cut at its
\* first colon (colon = FALSE: the line has none).
Line(k, v) == [colon |-> TRUE, key |-> k, value |-> v]
Prose(v) == [colon |-> FALSE, key |-> "", value |-> v]

\* variant: key.strip(), the case of the key is kept
StripUpper_NoUpper(k) ==
    CASE k = " Is_Quotation " -> "Is_Quotation"
      [] k = " Confidence" -> "Confidence"
      [] OTHER -> k

\* key.strip().upper()
StripUpper(k) ==
    CASE k \in {"IS_QUOTATION", "is_quotation", " Is_Quotation "} -> "IS_QUOTATION"
      [] k \in {"MATCH_TYPE", "match_type", "Match_Type"} -> "MATCH_TYPE"
      [] k \in {"CONFIDENCE", "confidence", " Confidence"} -> "CONFIDENCE"
      [] k \in {"BEST_REFERENCE", "best_reference"} -> "BEST_REFERENCE"
      [] k \in {"EXPLANATION", "explanation"} -> "EXPLANATION"
      [] k = "Note" -> "NOTE"
      [] OTHER -> k

\* value.strip()
Strip(v) ==
    CASE v = " yes " -> "yes"
      [] v = " 80 " -> "80"
      [] v = " exact" -> "exact"
      [] v = " analysis" -> "analysis"
      [] v = " John 1:1" -> "John 1:1"
      [] v = " CONFIDENCE: 40" -> "CONFIDENCE: 40"
      [] OTHER -> v

\* str.lower()
LowerStr(v) ==
    CASE v \in {"YES", "Yes"} -> "yes"
      [] v \in {"NO", "No"} -> "no"
      [] v \in {"Exact", "EXACT"} -> "exact"
      [] v = "Allusion" -> "allusion"
      [] v = "Partial" -> "partial"
      [] v \in {"None", "NONE"} -> "none"
      [] OTHER -> v

\* ":".join(segments)
JoinColon(segs) ==
    CASE segs = <<" John 1", "1">> -> " John 1:1"
      [] segs = <<" CONFIDENCE", " 40">> -> " CONFIDENCE: 40"
      [] OTHER -> segs[1]

\* variant: line.split(":") and the second piece as the value
CutLine_EveryColon(segs) ==
    IF Len(segs) = 1 THEN Prose(segs[1]) ELSE Line(segs[1], segs[2])

\* line.split(":", 1) on a line given by its colon-separated segments
CutLine(segs) ==
    IF Len(segs) = 1 THEN Prose(segs[1]) ELSE Line(segs[1], JoinColon(Tail(segs)))

CutLines(raw) == [i \in 1..Len(raw) |-> CutLine(raw[i])]

\* int(): the digit strings of the model; anything else raises ValueError
IntStrings == {"0", "40", "50", "80", "100", "150", "-5"}
ParseInt(v) ==
    CASE v = "0" -> 0 [] v = "40" -> 40 [] v = "50" -> 50 [] v = "80" -> 80
      [] v = "100" -> 100 [] v = "150" -> 150 [] v = "-5" -> 0 - 5
      [] OTHER -> 50

\* result_dict.get(key, default) after the loop over the lines: the last
\* line with that key wins
RECURSIVE DictGet(_, _, _)
DictGet(lines, key, default) ==
    IF lines = <<>> THEN default
    ELSE LET last == lines[Len(lines)]
         IN  IF last.colon /\ StripUpper(last.key) = key
             THEN Strip(last.value)
             ELSE DictGet(SubSeq(lines, 1, Len(lines) - 1), key, default)

\* values of the MatchType enum of claude_client
LlmMatchTypes ==
    {"exact", "close_paraphrase", "loose_paraphrase", "allusion", "non_biblical", "uncertain"}

\* best_match_reference = None
NoneRef == "<None>"

VerificationResult(is_q, mt, conf, expl, ref) ==
    [is_quotation |-> is_q,
     match_type |-> mt,
     confidence |-> conf,
     explanation |-> expl,
     best_match_reference |-> ref]

\* variant: the parsed confidence is taken as it is
parse_verification_response_NoClamp(lines) ==
    LET is_quotation == LowerStr(DictGet(lines, "IS_QUOTATION", "no")) = "yes"
        match_type_str == LowerStr(DictGet(lines, "MATCH_TYPE", "non_biblical"))
        match_type == IF match_type_str \in LlmMatchTypes THEN match_type_str ELSE "uncertain"
        conf_str == DictGet(lines, "CONFIDENCE", "50")
        confidence == IF conf_str \in IntStrings THEN ParseInt(conf_str) ELSE 50
        explanation == DictGet(lines, "EXPLANATION", "No explanation provided.")
        best_reference == DictGet(lines, "BEST_REFERENCE", "none")
    IN  VerificationResult(is_quotation, match_type, confidence, <<explanation>>,
                           IF LowerStr(best_reference) = "none" THEN NoneRef
                           ELSE best_reference)

\* _parse_verification_response over the lines of the reply
parse_verification_response(lines) ==
    LET is_quotation == LowerStr(DictGet(lines, "IS_QUOTATION", "no")) = "yes"
        match_type_str == LowerStr(DictGet(lines, "MATCH_TYPE", "non_biblical"))
        match_type == IF match_type_str \in LlmMatchTypes THEN match_type_str ELSE "uncertain"
        conf_str == DictGet(lines, "CONFIDENCE", "50")
        confidence == IF conf_str \in IntStrings
                      THEN Max(0, Min(100, ParseInt(conf_str)))
                      ELSE 50
        explanation == DictGet(lines, "EXPLANATION", "No explanation provided.")
        best_reference == DictGet(lines, "BEST_REFERENCE", "none")
    IN  VerificationResult(is_quotation, match_type, confidence, <<explanation>>,
                           IF LowerStr(best_reference) = "none" THEN NoneRef
                           ELSE best_reference)

\* what the completion service does with one request
ApiOutcome(kind, lines) == [kind |-> kind, lines |-> lines]

verify_quotation(candidates, outcome) ==
    IF candidates = <<>>
    THEN VerificationResult(FALSE, "non_biblical", 90,
                            <<"No candidate matches found in vector search.">>, NoneRef)
    ELSE IF outcome.kind = "reply"
         THEN parse_verification_response(outcome.lines)
         ELSE VerificationResult(FALSE, "uncertain", 0,
                                 <<"Error during verification">>, NoneRef)

\* first source whose reference is ref, NoSource when there is none
RECURSIVE FindReference(_, _)
FindReference(sources, ref) ==
    IF sources = <<>> THEN NoSource
    ELSE IF Head(sources).reference = ref THEN Head(sources)
    ELSE FindReference(Tail(sources), ref)

\* variant: a reference that no source carries yields a record made for it
llm_verify_Fabricate(text, candidates, sources, outcome) ==
    IF outcome.kind = "no_api_key"
    THEN heuristic_classify(text, candidates, sources)
    ELSE LET verification == verify_quotation(candidates, outcome)
             ref == verification.best_match_reference
             named == IF ref \in {NoneRef, ""} THEN NoSource
                      ELSE IF FindReference(sources, ref) = NoSource
                           THEN [NoSource EXCEPT !.reference = ref]
                           ELSE FindReference(sources, ref)
             best_match == IF named = NoSource /\ verification.is_quotation /\ sources # <<>>
                           THEN sources[1]
                           ELSE named
         IN  DetectionResult(text, verification.is_quotation, verification.confidence,
                             verification.match_type, FirstN(sources, TOP_SOURCES),
                             best_match, verification.explanation)

\* variant: the loop over the sources does not stop at the first hit
llm_verify_LastEdition(text, candidates, sources, outcome) ==
    IF outcome.kind = "no_api_key"
    THEN heuristic_classify(text, candidates, sources)
    ELSE LET verification == verify_quotation(candidates, outcome)
             ref == verification.best_match_reference
             hits == {i \in DOMAIN sources : sources[i].reference = ref}
             named == IF ref \notin {NoneRef, ""} /\ hits # {}
                      THEN sources[CHOOSE i \in hits : \A j \in hits : j <= i]
                      ELSE NoSource
             best_match == IF named = NoSource /\ verification.is_quotation /\ sources # <<>>
                           THEN sources[1]
                           ELSE named
         IN  DetectionResult(text, verification.is_quotation, verification.confidence,
                             verification.match_type, FirstN(sources, TOP_SOURCES),
                             best_match, verification.explanation)

\* variant: a quotation without a named candidate keeps no best match
llm_verify_NoDefault(text, candidates, sources, outcome) ==
    IF outcome.kind = "no_api_key"
    THEN heuristic_classify(text, candidates, sources)
    ELSE LET verification == verify_quotation(candidates, outcome)
             named == IF verification.best_match_reference \notin {NoneRef, ""}
                      THEN FindReference(sources, verification.best_match_reference)
                      ELSE NoSource
         IN  DetectionResult(text, verification.is_quotation, verification.confidence,
                             verification.match_type, FirstN(sources, TOP_SOURCES),
                             named, verification.explanation)

\* _llm_verify; a missing API key raises inside the try block
llm_verify(text, candidates, sources, outcome) ==
    IF outcome.kind = "no_api_key"
    THEN heuristic_classify(text, candidates, sources)
    ELSE LET verification == verify_quotation(candidates, outcome)
             named == IF verification.best_match_reference \notin {NoneRef, ""}
                      THEN FindReference(sources, verification.best_match_reference)
                      ELSE NoSource
             best_match == IF named = NoSource /\ verification.is_quotation /\ sources # <<>>
                           THEN sources[1]
                           ELSE named
         IN  DetectionResult(text, verification.is_quotation, verification.confidence,
                             verification.match_type, FirstN(sources, TOP_SOURCES),
                             best_match, verification.explanation)

\* --------------------------------------------------------- detection engine
\* variant: the confidence filter is left out
ApplyFloor_NoFloor(r, min_confidence) == r

\* variant: a confidence equal to the floor is filtered too
ApplyFloor_Strict(r, min_confidence) ==
    IF r.confidence <= min_confidence THEN [r EXCEPT !.is_quotation = FALSE] ELSE r

\* variant: a filtered result is also reclassified and loses its best match
ApplyFloor_Reclassify(r, min_confidence) ==
    IF r.confidence < min_confidence
    THEN [r EXCEPT !.is_quotation = FALSE, !.match_type = "non_biblical",
                   !.best_match = NoSource]
    ELSE r

\* the confidence filter of detect
ApplyFloor(r, min_confidence) ==
    IF r.confidence < min_confidence THEN [r EXCEPT !.is_quotation = FALSE] ELSE r

\* variant: the sources stay as the classifier set them
ShapeSources_Keep(r, sources, include_all_candidates) == r

\* the choice of returned sources of detect
ShapeSources(r, sources, include_all_candidates) ==
    [r EXCEPT !.sources = IF include_all_candidates THEN sources
                          ELSE FirstN(sources, TOP_SOURCES)]

\* values of the MatchType enum of the API models
ApiMatchTypes ==
    {"exact", "close_paraphrase", "loose_paraphrase", "allusion", "non_biblical"}

\* result_to_response inside the route's try block: the status the caller sees
result_to_response(r) ==
    IF r.match_type \in ApiMatchTypes /\ r.confidence \in 0..100 THEN "200" ELSE "500"

\* ------------------------------------------------------------ inputs
MinConfidences == {0, 50, 70, 100}
Modes == {"llm", "heuristic"}

ReplyGrid ==
    {<<Line("IS_QUOTATION", q), Line("MATCH_TYPE", m), Line("CONFIDENCE", c),
       Line("BEST_REFERENCE", b), Line("EXPLANATION", "analysis")>> :
        q \in {"yes", "no"}, m \in {"exact", "non_biblical", "partial"},
        c \in {"80", "150"}, b \in {"none", "John 1:1", "Luke 2:2"}}

OddReplies ==
    {<<>>,
     <<Prose("Here is my analysis"), Line(" Is_Quotation ", " yes "),
       Line("Match_Type", "Allusion"), Line("confidence", "high"),
       Line("Note", "see John 1:1"), Line("best_reference", "None")>>,
     <<Line("IS_QUOTATION", "YES"), Line("MATCH_TYPE", "uncertain"),
       Line("CONFIDENCE", "80"), Line("CONFIDENCE", "-5"),
       Line("BEST_REFERENCE", "Matthew 5:3")>>}

Replies == ReplyGrid \cup OddReplies

ApiOutcomes ==
    {ApiOutcome(k, <<>>) : k \in {"no_api_key", "api_error", "empty_content"}}
        \cup {ApiOutcome("reply", r) : r \in Replies}

NoOutcome == ApiOutcome("none", <<>>)
NoRequest ==
    [text |-> "", min_confidence |-> 0, include_all_candidates |-> FALSE, mode |-> ""]
NoResult == DetectionResult("", FALSE, 0, "", <<>>, NoSource, <<>>)

\* ------------------------------------------------------------- state
\* a QuotationDetector singleton of the routes and its lazily built parts
NoDetector == [made |-> FALSE, qdrant |-> FALSE, claude |-> FALSE]

\* get_detector: the singleton of the mode exists from now on
get_detector(ds, mode) == [ds EXCEPT ![mode].made = TRUE]

\* how a text reaches detect: POST /detect, one text of POST /detect/batch,
\* or a caller holding the detector
Entries == {"single", "batch", "direct"}

MAX_TEXT_LEN == 5000

\* len(text); "max" and "toolong" stand for texts of 5000 and 5001 characters
TextLen(t) ==
    CASE t = "" -> 0
      [] t = "max" -> MAX_TEXT_LEN
      [] t = "toolong" -> MAX_TEXT_LEN + 1
      [] OTHER -> Len(GreekChars(t))

\* the length constraint of DetectRequest.text
ValidText(t) == TextLen(t) >= 1 /\ TextLen(t) <= MAX_TEXT_LEN

\* request validation: only DetectRequest constrains the text; the batch
\* model constrains the number of texts, a direct call nothing
Accepted(e, t) == e = "single" => ValidText(t)

NoVerification == VerificationResult(FALSE, "", 0, <<>>, NoneRef)
NoMemo == [set |-> FALSE, req |-> NoRequest, result |-> NoResult]

VARIABLES
    pc,              \* position of the detect call in flight
    min_similarity,  \* QuotationDetector.min_similarity
    api_key_set,     \* ANTHROPIC_API_KEY is in the environment
    detectors,       \* the detector singletons, by mode
    model_loads,     \* QdrantManager constructions (embedding model loads) so far
    memo,            \* an earlier heuristic call and its result
    entry,           \* how the request came in
    req,             \* the request being served
    searchFailed,    \* the index query of this call raised
    candidates,      \* detect's candidates
    sources,         \* detect's sources
    llm,             \* what the completion service did in this call
    verification,    \* the VerificationResult of this call
    classified,      \* the result as the classifier returned it
    result,          \* detect's result
    status,          \* HTTP status of the response
    steps,           \* the stages of detect entered in this call, in order
    store,           \* condition of the verse database file
    batch,           \* the batch request being served
    ingest,          \* the add_verses_batch call in flight
    norm,            \* a string and what the normalizer made of it
    shared           \* two texts and their shared word counts

vars == <<pc, min_similarity, api_key_set, detectors, model_loads, memo,
          entry, req, searchFailed, candidates, sources, llm, verification,
          classified, result, status, steps, store, batch, ingest, norm, shared>>

engineVars == <<min_similarity, api_key_set, detectors, model_loads, memo>>
callVars == <<entry, req, searchFailed, candidates, sources, llm, verification,
              classified, result, status, steps>>

\* state outside the detectors: verse store, batch route, ingestion, text functions
sideVars == <<store, batch, ingest, norm, shared>>

NoBatch ==
    [active |-> FALSE, texts |-> <<>>, min_confidence |-> 0, mode |-> "",
     detected |-> <<>>, results |-> <<>>, total_processed |-> 0,
     total_quotations |-> 0]
NoShared == [set |-> FALSE, a |-> <<>>, b |-> <<>>, ab |-> 0, ba |-> 0, aa |-> 0]
NoNorm == [set |-> FALSE, x |-> <<>>, once |-> <<>>, twice |-> <<>>]
NoIngest ==
    [impl |-> "", verses |-> 0, batch_size |-> 0, i |-> 0, fails |-> {},
     seen |-> <<>>, total |-> 0, added |-> 0, failed |-> 0, outcome |-> "none"]

ColdEngine ==
    /\ detectors = [m \in Modes |-> NoDetector]
    /\ model_loads = 0
    /\ memo = NoMemo

NoCall ==
    /\ entry = "none"
    /\ req = NoRequest
    /\ searchFailed = FALSE
    /\ candidates = <<>>
    /\ sources = <<>>
    /\ llm = NoOutcome
    /\ verification = NoVerification
    /\ classified = NoResult
    /\ result = NoResult
    /\ status = "none"
    /\ steps = <<>>

Init ==
    /\ pc = "idle"
    /\ min_similarity \in SimilarityFloors
    /\ api_key_set \in BOOLEAN
    /\ ColdEngine
    /\ NoCall
    /\ store = "ok"
    /\ batch = NoBatch
    /\ ingest = NoIngest
    /\ norm = NoNorm
    /\ shared = NoShared

\* the per-call variables go back to their initial values
ResetCall ==
    /\ entry' = "none"
    /\ req' = NoRequest
    /\ searchFailed' = FALSE
    /\ candidates' = <<>>
    /\ sources' = <<>>
    /\ llm' = NoOutcome
    /\ verification' = NoVerification
    /\ classified' = NoResult
    /\ result' = NoResult
    /\ status' = "none"
    /\ steps' = <<>>

\* A request arrives.  POST /detect validates the text and hands it to the
\* detector of its mode; the batch route and direct callers hand every text on.
DetectRequestFrom(entries, texts, confidences, modes) ==
    /\ pc = "idle"
    /\ \E e \in entries, t \in texts, m \in confidences, a \in BOOLEAN, mode \in modes :
          /\ e = "batch" => a = FALSE
          /\ entry' = e
          /\ req' = [text |-> t, min_confidence |-> m,
                     include_all_candidates |-> a, mode |-> mode]
          /\ IF Accepted(e, t)
             THEN /\ detectors' = get_detector(detectors, mode)
                  /\ status' = status
                  /\ pc' = "search"
             ELSE /\ detectors' = detectors
                  /\ status' = "422"
                  /\ pc' = "responded"
    /\ UNCHANGED <<min_similarity, api_key_set, model_loads, memo, searchFailed,
                   candidates, sources, llm, verification, classified, result>>
    /\ steps' = steps
    /\ UNCHANGED sideVars

\* _vector_search with an exception swallowed into an empty list
vector_search(raw, failed) ==
    IF failed THEN <<>> ELSE Search(raw, TOP_K, min_similarity)

\* where the index query of a call can raise: nowhere, while the
\* QdrantManager is being built, or in the search itself
FailureKinds == {"none", "init", "search"}

\* the qdrant_manager property: built on first use, kept when built
qdrant_manager(d, failure) == [d EXCEPT !.qdrant = d.qdrant \/ failure # "init"]

\* Stage 1 of detect, up to the early return or the construction of sources;
\* hitsFor[t] are the ranked hit lists the index can hold for the text t
VectorSearchOver(hitsFor) ==
    /\ pc = "search"
    /\ \E raw \in hitsFor[req.text], failure \in FailureKinds :
          /\ failure = "init" => ~detectors[req.mode].qdrant
          /\ detectors' = [detectors EXCEPT
                              ![req.mode] = qdrant_manager(detectors[req.mode], failure)]
          /\ model_loads' = IF ~detectors[req.mode].qdrant /\ failure # "init"
                            THEN model_loads + 1 ELSE model_loads
          /\ searchFailed' = (failure # "none")
          /\ candidates' = vector_search(raw, failure # "none")
    /\ IF candidates' = <<>>
       THEN /\ result' = EmptyResult(req.text)
            /\ sources' = <<>>
            /\ pc' = "returned"
       ELSE /\ sources' = ToSources(candidates')
            /\ result' = result
            /\ pc' = "classify"
    /\ UNCHANGED <<min_similarity, api_key_set, memo, entry, req, llm, verification,
                   classified, status>>
    /\ steps' = Append(steps, "retrieval")
    /\ UNCHANGED sideVars

\* variant: the detector of either mode verifies with the LLM
use_llm_Always(mode) == TRUE

\* use_llm of the detector that get_detector hands out for a mode
use_llm(mode) == mode = "llm"

\* Stage 2 with use_llm.  The claude_client property builds the client on
\* first use and raises without an API key.
LlmVerifyWith(outcomes) ==
    /\ pc = "classify"
    /\ use_llm(req.mode)
    /\ \E o \in outcomes :
          /\ o.kind = "no_api_key" <=> (~detectors["llm"].claude /\ ~api_key_set)
          /\ llm' = o
          /\ detectors' = [detectors EXCEPT
                              !["llm"].claude = detectors["llm"].claude \/ o.kind # "no_api_key"]
          /\ verification' = IF o.kind = "no_api_key" THEN NoVerification
                             ELSE verify_quotation(candidates, o)
          /\ result' = llm_verify(req.text, candidates, sources, o)
    /\ classified' = result'
    /\ pc' = "floor"
    /\ UNCHANGED <<min_similarity, api_key_set, model_loads, memo, entry, req,
                   searchFailed, candidates, sources, status>>
    /\ steps' = Append(steps, IF llm'.kind = "no_api_key" THEN "heuristic" ELSE "verifier")
    /\ UNCHANGED sideVars

\* Stage 2 without use_llm
HeuristicClassify ==
    /\ pc = "classify"
    /\ ~use_llm(req.mode)
    /\ result' = heuristic_classify(req.text, candidates, sources)
    /\ classified' = result'
    /\ pc' = "floor"
    /\ UNCHANGED <<engineVars, entry, req, searchFailed, candidates, sources, llm,
                   verification, status>>
    /\ steps' = Append(steps, "heuristic")
    /\ UNCHANGED sideVars

ConfidenceFloor ==
    /\ pc = "floor"
    /\ result' = ApplyFloor(result, req.min_confidence)
    /\ pc' = "shape"
    /\ UNCHANGED <<engineVars, entry, req, searchFailed, candidates, sources, llm,
                   verification, classified, status>>
    /\ steps' = Append(steps, "floor")
    /\ UNCHANGED sideVars

SourceShaping ==
    /\ pc = "shape"
    /\ result' = ShapeSources(result, sources, req.include_all_candidates)
    /\ pc' = "returned"
    /\ UNCHANGED <<engineVars, entry, req, searchFailed, candidates, sources, llm,
                   verification, classified, status>>
    /\ steps' = Append(steps, "shaping")
    /\ UNCHANGED sideVars

\* detect has returned: a route renders the result, a direct caller has it
Respond ==
    /\ pc = "returned"
    /\ status' = IF entry = "direct" THEN "none" ELSE result_to_response(result)
    /\ pc' = "responded"
    /\ \/ memo' = memo
       \/ /\ req.mode = "heuristic"
          /\ memo' = [set |-> TRUE, req |-> req, result |-> result]
    /\ UNCHANGED <<min_similarity, api_key_set, detectors, model_loads, entry,
                   req, searchFailed, candidates, sources, llm, verification,
                   classified, result>>
    /\ steps' = steps
    /\ UNCHANGED sideVars

\* the call is over; the same process serves the next request
NextCall ==
    /\ pc = "responded"
    /\ pc' = "idle"
    /\ ResetCall
    /\ UNCHANGED engineVars
    /\ UNCHANGED sideVars

\* the call is over; the process is restarted
Restart ==
    /\ pc = "responded"
    /\ pc' = "idle"
    /\ ResetCall
    /\ detectors' = [m \in Modes |-> NoDetector]
    /\ model_loads' = 0
    /\ memo' = NoMemo
    /\ UNCHANGED <<min_similarity, api_key_set>>
    /\ UNCHANGED sideVars

\* ---- one call at a time on a fresh process, over the large input sets
DetectRequest == DetectRequestFrom({"single"}, Texts, MinConfidences, Modes)
\* any ranked hit list for any text
AnyHits == [t \in Texts |-> RawHitLists]
VectorSearch == VectorSearchOver(AnyHits)
LlmVerify == LlmVerifyWith(ApiOutcomes)

Next ==
    \/ DetectRequest
    \/ VectorSearch
    \/ LlmVerify
    \/ HeuristicClassify
    \/ ConfidenceFloor
    \/ SourceShaping
    \/ Respond
    \/ Restart

Spec == Init /\ [][Next]_vars

\* ---- a process serving call after call, over small input sets
EngineTexts == {"quote", "", "max", "toolong"}
EngineConfidences == {50}
\* a fixed index: the quotation has two neighbours, the other texts none
EngineIndex ==
    [t \in EngineTexts |->
        IF t = "quote" THEN {<<Candidate(1, 95), Candidate(2, 80)>>} ELSE {<<>>}]
EngineOutcomes ==
    {ApiOutcome("no_api_key", <<>>), ApiOutcome("api_error", <<>>),
     ApiOutcome("reply", <<Line("IS_QUOTATION", "yes"), Line("MATCH_TYPE", "exact"),
                           Line("CONFIDENCE", "80"), Line("BEST_REFERENCE", "John 1:1")>>)}

EngineRequest == DetectRequestFrom(Entries, EngineTexts, EngineConfidences, Modes)
EngineSearch == VectorSearchOver(EngineIndex)
EngineVerify == LlmVerifyWith(EngineOutcomes)

EngineNext ==
    \/ EngineRequest
    \/ EngineSearch
    \/ EngineVerify
    \/ HeuristicClassify
    \/ ConfidenceFloor
    \/ SourceShaping
    \/ Respond
    \/ NextCall

SpecEngine == Init /\ [][EngineNext]_vars

\* ------------------------------------------------------------ properties
Returned == pc \in {"returned", "responded"}
\* a classifier ran in this call (the search returned candidates)
Classified == pc \in {"floor", "shape", "returned", "responded"} /\ candidates # <<>>
\* the heuristic classifier produced the result of this call
HeuristicRan == Classified /\ (req.mode = "heuristic" \/ llm.kind = "no_api_key")
\* the completion service failed in this call
LlmFailed == Classified /\ llm.kind \in {"no_api_key", "api_error", "empty_content"}

TopScore == candidates[1].score
TopOverlap == Overlap(req.text, candidates[1].text)
Verdict(r) == <<r.match_type, r.confidence, r.is_quotation>>
QuotationTypes == {"exact", "close_paraphrase", "loose_paraphrase", "allusion"}

\* C1: the heuristic classifier follows the threshold table on the top
\* candidate's score when the row's word-overlap requirement is met:
\* >= 0.95 exact/95, >= 0.90 close_paraphrase/85, >= 0.80 loose_paraphrase/70,
\* >= 0.70 allusion/55, lower non_biblical/60; is_quotation is true for the
\* first four rows only.
C1_ThresholdTable ==
    HeuristicRan =>
        /\ (TopScore >= 95 /\ TopOverlap >= 5)
              => Verdict(classified) = <<"exact", 95, TRUE>>
        /\ (TopScore \in 90..94 /\ TopOverlap >= 3)
              => Verdict(classified) = <<"close_paraphrase", 85, TRUE>>
        /\ (TopScore \in 80..89 /\ TopOverlap >= 3)
              => Verdict(classified) = <<"loose_paraphrase", 70, TRUE>>
        /\ (TopScore \in 70..79 /\ TopOverlap >= 2)
              => Verdict(classified) = <<"allusion", 55, TRUE>>
        /\ (TopScore < 70)
              => Verdict(classified) = <<"non_biblical", 60, FALSE>>

\* words the row of the table that the score falls in asks for
RequiredOverlap(score) ==
    IF score >= 95 THEN 5
    ELSE IF score >= 80 THEN 3
    ELSE IF score >= 70 THEN 2
    ELSE 0

\* C2: when the top score falls in a row but the shared words (length >= 3)
\* are fewer than the row requires, the heuristic result is non_biblical with
\* confidence 60 and is_quotation false.
C2_OverlapGate ==
    (HeuristicRan /\ TopOverlap < RequiredOverlap(TopScore))
        => Verdict(classified) = <<"non_biblical", 60, FALSE>>

\* what heuristic mode returns for the text, candidates and floor of this call
HeuristicAnswer ==
    ShapeSources(ApplyFloor(heuristic_classify(req.text, candidates, sources),
                            req.min_confidence),
                 sources, req.include_all_candidates)

\* C3: when the LLM verifier fails, detect in llm mode does not fail and
\* returns the is_quotation, match_type, confidence and best_match that
\* heuristic mode returns for the same text, candidates and min_confidence.
C3_LlmFailureFallsBack ==
    (LlmFailed /\ Returned) =>
        /\ result.is_quotation = HeuristicAnswer.is_quotation
        /\ result.match_type = HeuristicAnswer.match_type
        /\ result.confidence = HeuristicAnswer.confidence
        /\ result.best_match = HeuristicAnswer.best_match
        /\ (pc = "responded" => status = "200")

\* C4: a failed vector search ends the call with an error and no
\* DetectionResult, so the caller does not get a verdict.
C4_SearchFailureIsError ==
    (searchFailed /\ Returned) =>
        /\ result = NoResult
        /\ (pc = "responded" => status # "200")

\* C5: a returned confidence below min_confidence comes with
\* is_quotation = false.
C5_FloorForcesFalse ==
    Returned => (result.confidence < req.min_confidence => ~result.is_quotation)

\* the floor turned a quotation verdict into is_quotation = false
C5_Witness ==
    /\ pc = "returned"
    /\ classified.is_quotation
    /\ result.confidence < req.min_confidence
    /\ ~result.is_quotation

\* the MATCH_TYPE of the reply is none of the five enumerated values
ReplyTypeOutsideSet ==
    /\ llm.kind = "reply"
    /\ LowerStr(DictGet(llm.lines, "MATCH_TYPE", "non_biblical")) \notin ApiMatchTypes

\* C6: every returned match_type is one of the five enumerated values; a reply
\* with a MATCH_TYPE outside the set yields non_biblical with confidence 0,
\* and the result renders as a response.
C6_MatchTypeEnumerated ==
    Returned =>
        /\ result.match_type \in ApiMatchTypes
        /\ ReplyTypeOutsideSet => (result.match_type = "non_biblical" /\ result.confidence = 0)
        /\ (pc = "responded" => status = "200")

\* C7: zero candidates give is_quotation false, confidence 90, non_biblical,
\* no best_match and empty sources.
C7_NoCandidates ==
    (Returned /\ candidates = <<>>) =>
        /\ Verdict(result) = <<"non_biblical", 90, FALSE>>
        /\ result.best_match = NoSource
        /\ result.sources = <<>>

\* an llm-mode call with the highest floor and all candidates asked for,
\* whose search came back empty without failing
C7_Witness ==
    /\ pc = "returned"
    /\ candidates = <<>>
    /\ ~searchFailed
    /\ req.mode = "llm"
    /\ req.min_confidence = 100
    /\ req.include_all_candidates
    /\ result.confidence = 90

\* C8 as claimed: confidence >= min_confidence iff is_quotation.
C8_FloorIff ==
    Returned => (result.confidence >= req.min_confidence <=> result.is_quotation)

\* C8 as amended: is_quotation is true iff the classifier judged the text a
\* quotation and confidence >= min_confidence.
C8_QuotationIffVerdictAndFloor ==
    Returned =>
        (result.is_quotation <=>
            (classified.is_quotation /\ result.confidence >= req.min_confidence))

\* a quotation verdict whose confidence is exactly the floor is kept
C8_Witness ==
    /\ pc = "returned"
    /\ classified.is_quotation
    /\ result.confidence = req.min_confidence
    /\ result.is_quotation

\* C9: the result assembled before the floor has is_quotation = true exactly
\* for the four quotation types, and no returned result is non_biblical with
\* is_quotation = true.
C9_TypeAgreesWithFlag ==
    /\ pc = "floor" => (result.is_quotation <=> result.match_type \in QuotationTypes)
    /\ Returned => ~(result.match_type = "non_biblical" /\ result.is_quotation)

\* C10: best_match is absent iff match_type = non_biblical; the heuristic
\* best_match is the top candidate unless the result is non_biblical.
C10_BestMatchIffBiblical ==
    Returned =>
        /\ result.best_match = NoSource <=> result.match_type = "non_biblical"
        /\ (HeuristicRan /\ result.match_type # "non_biblical")
              => result.best_match = sources[1]

\* s holds the record x
Holds(s, x) == \E i \in DOMAIN s : s[i] = x

\* C11: if detect returns is_quotation = true then best_match is present and
\* is an element of the returned sources, in both modes and for both values
\* of include_all_candidates.
C11_BestMatchInSources ==
    (Returned /\ result.is_quotation) =>
        /\ result.best_match # NoSource
        /\ Holds(result.sources, result.best_match)

\* C11, amended: if detect returns is_quotation = true then best_match is
\* present and is one of the sources built from the retrieved candidates; it
\* is an element of the returned sources when include_all_candidates is true
\* or when it is among the first three.
C11_BestMatchInRetrieval ==
    (Returned /\ result.is_quotation) =>
        /\ result.best_match # NoSource
        /\ Holds(sources, result.best_match)
        /\ req.include_all_candidates => Holds(result.sources, result.best_match)
        /\ Holds(FirstN(sources, TOP_SOURCES), result.best_match)
              => Holds(result.sources, result.best_match)

\* a quotation whose best match is the fourth candidate, cut from the sources
C11_Witness ==
    /\ Returned
    /\ result.is_quotation
    /\ ~req.include_all_candidates
    /\ result.best_match = sources[Len(sources)]
    /\ ~Holds(result.sources, result.best_match)

\* C12: whenever best_match is present in a returned result it is one of the
\* candidates retrieved in the same call (same reference and score), also when
\* include_all_candidates = false truncates the returned sources.
C12_BestMatchRetrieved ==
    (Returned /\ result.best_match # NoSource) =>
        \E i \in DOMAIN candidates :
            /\ candidates[i].reference = result.best_match.reference
            /\ candidates[i].score = result.best_match.similarity_score

\* the reply names a candidate beyond the three returned sources
C12_Witness ==
    /\ Returned
    /\ req.mode = "llm"
    /\ llm.kind = "reply"
    /\ result.best_match # NoSource
    /\ Len(result.sources) < Len(candidates)
    /\ \A i \in DOMAIN result.sources :
          result.sources[i].reference # result.best_match.reference

\* the source s renders the candidate c
Renders(s, c) ==
    /\ s.reference = c.reference
    /\ s.book = c.book /\ s.chapter = c.chapter /\ s.verse = c.verse
    /\ s.greek_text = c.text
    /\ s.similarity_score = c.score
    /\ s.source_edition = c.source

\* C13: for a retrieval of n >= 1 candidates the returned sources are exactly
\* the first min(3, n) candidates in retrieval order when
\* include_all_candidates = false and all n candidates in retrieval order when
\* it is true, in heuristic mode, in llm mode and on the fallback path.
C13_SourcesShape ==
    (Returned /\ candidates # <<>>) =>
        LET n == Len(candidates)
            k == IF req.include_all_candidates THEN n ELSE IF n < 3 THEN n ELSE 3
        IN  /\ Len(result.sources) = k
            /\ \A i \in 1..k : Renders(result.sources[i], candidates[i])

\* four candidates cut to three on the fallback path
C13_Witness ==
    /\ Returned
    /\ llm.kind = "no_api_key"
    /\ ~req.include_all_candidates
    /\ Len(candidates) = 4
    /\ Len(result.sources) = 3
    /\ Renders(result.sources[3], candidates[3])

\* C14: when retrieval returns at least one candidate and every returned
\* candidate scores below 0.70, detect in heuristic mode returns non_biblical
\* with confidence 60 and is_quotation = false, for any similarity floor.
C14_AllBelowFloor ==
    (/\ Returned
     /\ req.mode = "heuristic"
     /\ candidates # <<>>
     /\ \A i \in DOMAIN candidates : candidates[i].score < 70)
        => Verdict(result) = <<"non_biblical", 60, FALSE>>

HeuristicConfidences == {55, 60, 70, 85, 90, 95}

\* the CONFIDENCE value of the reply of this call, "" when it has none
ReplyConfidence == DictGet(llm.lines, "CONFIDENCE", "")

\* C15: the confidence of every returned result is an integer in [0, 100];
\* heuristic results use only 55, 60, 70, 85, 90, 95, and an LLM CONFIDENCE
\* value is clamped: above 100 it becomes 100, below 0 it becomes 0.
C15_ConfidenceRange ==
    Returned =>
        /\ result.confidence \in 0..100
        /\ (req.mode = "heuristic" \/ llm.kind = "no_api_key")
              => result.confidence \in HeuristicConfidences
        /\ (llm.kind = "reply" /\ ReplyConfidence \in IntStrings) =>
              LET v == ParseInt(ReplyConfidence)
              IN  result.confidence = IF v > 100 THEN 100 ELSE IF v < 0 THEN 0 ELSE v

\* a reply with CONFIDENCE: 150 is returned with confidence 100
C15_Witness ==
    /\ Returned
    /\ llm.kind = "reply"
    /\ ReplyConfidence = "150"
    /\ result.confidence = 100

\* ---- the reply parser on its own, over short replies of raw lines
\* raw lines, each as its segments between colons
ParseLines ==
    {<<"IS_QUOTATION", " yes ">>,
     <<" Is_Quotation ", " yes ">>,
     <<"Match_Type", " exact">>,
     <<"confidence", " 80 ">>,
     <<"BEST_REFERENCE", " John 1", "1">>,
     <<"explanation", " analysis">>,
     <<"Here is my analysis">>,
     <<"Note", " CONFIDENCE", " 40">>}

RECURSIVE SeqsUpTo(_, _)
SeqsUpTo(S, n) ==
    IF n = 0 THEN {<<>>}
    ELSE LET shorter == SeqsUpTo(S, n - 1)
         IN  shorter \cup {Append(q, x) : q \in shorter, x \in S}

\* verify_quotation hands the text of a reply to the parser
ParseReply ==
    /\ pc = "idle"
    /\ \E raw \in SeqsUpTo(ParseLines, MaxLines) :
          /\ llm' = ApiOutcome("reply", raw)
          /\ verification' = parse_verification_response(CutLines(raw))
    /\ pc' = "parsed"
    /\ UNCHANGED <<engineVars, entry, req, searchFailed, candidates, sources,
                   classified, result, status>>
    /\ steps' = steps
    /\ UNCHANGED sideVars

\* the VerificationResult has been handed back
ParseDone ==
    /\ pc = "parsed"
    /\ pc' = "idle"
    /\ ResetCall
    /\ UNCHANGED engineVars
    /\ UNCHANGED sideVars

ParseNext == ParseReply \/ ParseDone

SpecParse == Init /\ [][ParseNext]_vars

\* spellings of a key that differ from it in case and outer blanks only
Spelled(K) ==
    CASE K = "IS_QUOTATION" -> {"IS_QUOTATION", "is_quotation", " Is_Quotation "}
      [] K = "MATCH_TYPE" -> {"MATCH_TYPE", "match_type", "Match_Type"}
      [] K = "CONFIDENCE" -> {"CONFIDENCE", "confidence", " Confidence"}
      [] K = "BEST_REFERENCE" -> {"BEST_REFERENCE", "best_reference"}
      [] K = "EXPLANATION" -> {"EXPLANATION", "explanation"}

\* the reply of this call has a line whose text before the first colon spells K
Said(K) ==
    \E i \in DOMAIN llm.lines :
        Len(llm.lines[i]) >= 2 /\ llm.lines[i][1] \in Spelled(K)

\* C16: the parser splits each line on its first colon and matches the
\* trimmed key case-insensitively against the five keys; lines with unknown
\* keys or without a colon are ignored, and a key missing from the reply
\* takes its default: is_quotation false, match_type non_biblical,
\* confidence 50, the default explanation, no best reference.  (Every line of
\* ParseLines with a known key says yes, exact, 80, John 1:1 or analysis.)
C16_ParserContract ==
    pc = "parsed" =>
        /\ verification.is_quotation = Said("IS_QUOTATION")
        /\ verification.match_type =
              IF Said("MATCH_TYPE") THEN "exact" ELSE "non_biblical"
        /\ verification.confidence = IF Said("CONFIDENCE") THEN 80 ELSE 50
        /\ verification.explanation =
              IF Said("EXPLANATION") THEN <<"analysis">>
              ELSE <<"No explanation provided.">>
        /\ verification.best_match_reference =
              IF Said("BEST_REFERENCE") THEN "John 1:1" ELSE NoneRef

\* a mixed-case key is read while a line without a colon and a line with an
\* unknown key leave the confidence at its default
C16_Witness ==
    /\ pc = "parsed"
    /\ llm.lines = <<<<"Here is my analysis">>, <<"Match_Type", " exact">>,
                     <<"Note", " CONFIDENCE", " 40">>>>
    /\ verification.match_type = "exact"
    /\ verification.confidence = 50

\* C17: two detect calls in heuristic mode with the same text and options over
\* an unchanged index return equal results (processing_time_ms is not part of
\* the modelled result), whatever calls ran before or between them.
C17_HeuristicRepeatable ==
    (/\ pc = "returned"
     /\ req.mode = "heuristic"
     /\ memo.set
     /\ memo.req = req)
        => result = memo.result

\* C18: a request whose text is empty or longer than 5000 characters is
\* rejected with InvalidInput before any retrieval is attempted, and a text of
\* exactly 5000 characters is accepted, for a single request, for each text of
\* a batch request and for a direct call of detect.
C18_InvalidInputRejected ==
    entry \in Entries =>
        /\ (TextLen(req.text) = 0 \/ TextLen(req.text) > 5000)
              => (pc = "responded" /\ status = "422")
        /\ TextLen(req.text) = 5000 => status # "422"

\* C19: across any sequence of detect calls in one process, in either mode,
\* the embedding model and the index handle are initialized exactly once and
\* afterwards only read.
C19_InitializedOnce == model_loads <= 1

\* C20: within one detect call the candidates, and with them the returned
\* sources, are in descending order of similarity_score, candidates of equal
\* score in ascending order of verse id.
C20_ScoreThenIdOrder ==
    \A i \in 1..(Len(candidates) - 1) :
        \/ candidates[i].score > candidates[i + 1].score
        \/ /\ candidates[i].score = candidates[i + 1].score
           /\ candidates[i].id < candidates[i + 1].id

\* ---- the verse store read path
\* the database file is in place, missing, or in place but not queryable
StoreConditions == {"ok", "missing", "failing"}

StoreReads ==
    {"detector.get_verse", "GET /verse", "GET /verses", "GET /books",
     "GET /sources", "GET /stats"}
ReadsByReference == {"detector.get_verse", "GET /verse"}

StoredReferences == {VerseReference(i) : i \in 1..NumVerses}
References == StoredReferences \cup {"Luke 2:2"}

\* get_db_connection: raises HTTPException 503 when the file is not there
get_db_connection(c) == IF c = "missing" THEN "503" ELSE "conn"

\* QuotationDetector.get_verse: every exception ends in None (sqlite3.connect
\* on a missing file makes an empty database, whose query raises)
detector_get_verse(c, reference) ==
    IF c = "ok" /\ reference \in StoredReferences THEN "row" ELSE "None"

\* GET /verse/{reference}: HTTPException is passed on, the rest becomes 500
route_get_verse(c, reference) ==
    IF get_db_connection(c) = "503" THEN "503"
    ELSE IF c = "failing" THEN "500"
    ELSE IF reference \in StoredReferences THEN "200" ELSE "404"

\* GET /verses: HTTPException is passed on, the rest becomes 500
list_verses(c) ==
    IF get_db_connection(c) = "503" THEN "503"
    ELSE IF c = "failing" THEN "500" ELSE "200"

\* GET /books, /sources, /stats: except Exception takes the 503 too
list_books(c) ==
    IF get_db_connection(c) = "503" THEN "500"
    ELSE IF c = "failing" THEN "500" ELSE "200"

\* what the caller of a read gets
ReadOutcome(op, c, reference) ==
    CASE op = "detector.get_verse" -> detector_get_verse(c, reference)
      [] op = "GET /verse" -> route_get_verse(c, reference)
      [] op = "GET /verses" -> list_verses(c)
      [] OTHER -> list_books(c)

\* the environment: the database file goes away, breaks or comes back
StoreChanges ==
    /\ pc = "idle"
    /\ \E c \in StoreConditions \ {store} : store' = c
    /\ UNCHANGED <<pc, engineVars, callVars, batch, ingest, norm, shared>>

VerseRead ==
    /\ pc = "idle"
    /\ \E op \in StoreReads, reference \in References :
          /\ op \notin ReadsByReference => reference = "Luke 2:2"
          /\ entry' = op
          /\ req' = [NoRequest EXCEPT
                        !.text = IF op \in ReadsByReference THEN reference ELSE ""]
          /\ status' = ReadOutcome(op, store, reference)
    /\ pc' = "responded"
    /\ UNCHANGED <<engineVars, searchFailed, candidates, sources, llm, verification,
                   classified, result, steps, sideVars>>

ReadDone ==
    /\ pc = "responded"
    /\ pc' = "idle"
    /\ ResetCall
    /\ UNCHANGED <<engineVars, sideVars>>

StoreNext == StoreChanges \/ VerseRead \/ ReadDone

SpecStore == Init /\ [][StoreNext]_vars

\* C21: every verse-store read tells a missing reference from an unavailable
\* store: a reference that does not exist comes back absent (None, not
\* found), an unavailable or failing store as an unavailability error.
C21_MissingVsUnavailable ==
    (pc = "responded" /\ entry \in StoreReads) =>
        /\ (store = "ok" /\ entry \in ReadsByReference /\ req.text \notin StoredReferences)
              => status \in {"None", "404"}
        /\ store = "missing" => status = "503"
        /\ store = "failing" => status \in {"503", "500"}

\* ---- the normalizer on its own, over short strings
\* a letter, sigma, their capitals, an accented letter, a combining mark,
\* blank and the three kinds of punctuation
NormChars == {1, SIGMA, 11, CAP_SIGMA, 21, MARK, SPACE, PUNCT, APOSTROPHE, UNDERSCORE}

\* process_all_verses normalizes a text; normalizing the outcome again is
\* what a second processing run does
Normalize ==
    /\ pc = "idle"
    /\ \E x \in SeqsUpTo(NormChars, MaxChars) :
          norm' = [set |-> TRUE, x |-> x, once |-> normalize(x),
                   twice |-> normalize(normalize(x))]
    /\ pc' = "normalized"
    /\ UNCHANGED <<engineVars, callVars, store, batch, ingest, shared>>

NormalizeDone ==
    /\ pc = "normalized"
    /\ pc' = "idle"
    /\ norm' = NoNorm
    /\ UNCHANGED <<engineVars, callVars, store, batch, ingest, shared>>

NormalizeNext == Normalize \/ NormalizeDone

SpecNormalize == Init /\ [][NormalizeNext]_vars

\* C22: normalize is idempotent: normalize(normalize(x)) = normalize(x).
C22_Idempotent == norm.set => norm.twice = norm.once

\* an accented capital between punctuation is changed by the first pass and
\* left alone by the second
C22_Witness ==
    /\ norm.set
    /\ norm.x = <<PUNCT, 21, CAP_SIGMA, SPACE>>
    /\ norm.once = <<1, FINAL_SIGMA>>
    /\ norm.twice = norm.once

\* C23: normalize(x) contains no combining mark, no uppercase letter, no
\* punctuation and no final sigma: every sigma, also a word-final one that
\* comes from lowercasing a capital sigma, comes out as medial sigma.
C23_NormalForm ==
    norm.set =>
        \A i \in DOMAIN norm.once :
            /\ norm.once[i] # MARK
            /\ norm.once[i] \notin 11..18
            /\ norm.once[i] \notin {PUNCT, APOSTROPHE, UNDERSCORE}
            /\ norm.once[i] # FINAL_SIGMA

\* ---- the word overlap on its own, over short texts
\* a text is written as words, each a base word in a form
WordChars(w) == CASE w = 1 -> W1 [] w = 2 -> W6 [] OTHER -> SHORT

\* the first letter with an accent (precomposed)
Accented(cs) == [i \in 1..Len(cs) |-> IF i = 1 THEN cs[i] + 20 ELSE cs[i]]
\* all letters as capitals
Capitals(cs) == [i \in 1..Len(cs) |-> cs[i] + 10]

WordForm(item) ==
    CASE item.form = "accented" -> Accented(WordChars(item.w))
      [] item.form = "capitals" -> Capitals(WordChars(item.w))
      [] OTHER -> WordChars(item.w)

WordItems ==
    {[w |-> 1, form |-> "plain"], [w |-> 1, form |-> "accented"],
     [w |-> 2, form |-> "plain"], [w |-> 2, form |-> "capitals"],
     [w |-> 3, form |-> "plain"], [w |-> 3, form |-> "capitals"]}

\* the words of a text joined by blanks
RECURSIVE Written(_)
Written(items) ==
    IF items = <<>> THEN <<>>
    ELSE IF Len(items) = 1 THEN WordForm(items[1])
    ELSE WordForm(items[1]) \o SP \o Written(Tail(items))

\* _heuristic_classify counts the words two texts share
CountShared ==
    /\ pc = "idle"
    /\ \E a \in SeqsUpTo(WordItems, MaxWords), b \in SeqsUpTo(WordItems, MaxWords) :
          shared' = [set |-> TRUE, a |-> a, b |-> b,
                     ab |-> count_shared_words(Written(a), Written(b)),
                     ba |-> count_shared_words(Written(b), Written(a)),
                     aa |-> count_shared_words(Written(a), Written(a))]
    /\ pc' = "counted"
    /\ UNCHANGED <<engineVars, callVars, store, batch, ingest, norm>>

CountDone ==
    /\ pc = "counted"
    /\ pc' = "idle"
    /\ shared' = NoShared
    /\ UNCHANGED <<engineVars, callVars, store, batch, ingest, norm>>

OverlapNext == CountShared \/ CountDone

SpecOverlap == Init /\ [][OverlapNext]_vars

\* base words of three letters or more that a text contains in any form
LongWords(items) ==
    {items[i].w : i \in {j \in DOMAIN items : Len(WordChars(items[j].w)) >= 3}}

\* C24: count_shared_words(a, b) is the number of distinct tokens of length
\* >= 3 that occur in both normalized texts: tokens of length <= 2 never
\* count, the result is 0 when either text is empty, accents and letter case
\* do not change it, and it is symmetric.
C24_SharedWords ==
    shared.set =>
        /\ shared.ab = Cardinality(LongWords(shared.a) \cap LongWords(shared.b))
        /\ (shared.a = <<>> \/ shared.b = <<>>) => shared.ab = 0
        /\ shared.ab = shared.ba

\* a word in capitals ending in sigma is counted with its plain form, the
\* shared short word is not
C24_Witness ==
    /\ shared.set
    /\ shared.a = <<[w |-> 2, form |-> "capitals"], [w |-> 3, form |-> "plain"]>>
    /\ shared.b = <<[w |-> 3, form |-> "capitals"], [w |-> 2, form |-> "plain"]>>
    /\ shared.ab = 1

\* occurrences of words of three letters or more in a text
LongWordCount(items) ==
    Cardinality({j \in DOMAIN items : Len(WordChars(items[j].w)) >= 3})

\* C25: count_shared_words(x, x) is at least the number of tokens of
\* normalize(x) whose length is >= 3.
C25_SelfOverlapAtLeastTokens ==
    shared.set => shared.aa >= LongWordCount(shared.a)

\* C25, amended: count_shared_words(x, x) is the number of distinct tokens of
\* normalize(x) whose length is >= 3; it is at least the number of such
\* tokens when none of them occurs twice.
C25_SelfOverlapDistinctTokens ==
    shared.set =>
        /\ shared.aa = Cardinality(LongWords(shared.a))
        /\ Cardinality(LongWords(shared.a)) = LongWordCount(shared.a)
              => shared.aa >= LongWordCount(shared.a)

\* a word written twice, once with an accent, is one shared word
C25_Witness ==
    /\ shared.set
    /\ shared.a = <<[w |-> 1, form |-> "plain"], [w |-> 1, form |-> "accented"]>>
    /\ shared.aa = 1

\* how often a stage was entered in this call
Entered(stage) == Cardinality({i \in DOMAIN steps : steps[i] = stage})

\* C26: within one detect call retrieval comes first, then exactly one
\* classification, then the confidence floor, then source shaping.  The LLM
\* verifier is invoked at most once, only in llm mode and only after retrieval
\* returned a candidate; the heuristic classifier runs only in heuristic mode
\* or after an LLM failure; in heuristic mode the verifier is never invoked.
C26_StageOrder ==
    /\ Len(steps) <= 4
    /\ Len(steps) >= 1 => steps[1] = "retrieval"
    /\ Len(steps) >= 2 => steps[2] \in {"verifier", "heuristic"}
    /\ Len(steps) >= 3 => steps[3] = "floor"
    /\ Len(steps) >= 4 => steps[4] = "shaping"
    /\ (pc = "returned" /\ candidates # <<>>) => Len(steps) = 4
    /\ Entered("verifier") <= 1
    /\ Entered("verifier") = 1 => (req.mode = "llm" /\ candidates # <<>>)
    /\ Entered("heuristic") = 1
          => (req.mode = "heuristic" \/ llm.kind \in {"no_api_key", "api_error", "empty_content"})
    /\ req.mode = "heuristic" => Entered("verifier") = 0

\* an llm call whose verifier ran once between retrieval and the floor
C26_Witness ==
    /\ pc = "returned"
    /\ req.mode = "llm"
    /\ steps = <<"retrieval", "verifier", "floor", "shaping">>

\* C27: applying the confidence floor changes at most is_quotation, from true
\* to false: match_type, confidence, best_match, explanation and input_text
\* are as the classifier produced them, for every min_confidence.
C27_FloorFrame ==
    (pc \in {"shape", "returned"} /\ candidates # <<>>) =>
        /\ result.match_type = classified.match_type
        /\ result.confidence = classified.confidence
        /\ result.best_match = classified.best_match
        /\ result.explanation = classified.explanation
        /\ result.input_text = classified.input_text
        /\ result.is_quotation # classified.is_quotation
              => (classified.is_quotation /\ ~result.is_quotation)

\* the floor has taken is_quotation from a result that keeps its type and
\* its best match
C27_Witness ==
    /\ pc = "shape"
    /\ classified.is_quotation
    /\ ~result.is_quotation
    /\ result.match_type \in QuotationTypes
    /\ result.best_match # NoSource

\* ---- the batch route: one request, its texts detected one after another
BatchTexts == {"quote", "max"}
BatchConfidences == {50, 100}

\* non-empty sequences over S of at most n elements
SeqsFrom1(S, n) == SeqsUpTo(S, n) \ {<<>>}

\* the SourceMatch made of a DetectionSource
to_source_match(s) ==
    [s EXCEPT !.source_edition = IF s.source_edition = "" THEN NoneRef ELSE s.source_edition]

\* the DetectResponse that result_to_response makes of a result
to_response(r) ==
    [r EXCEPT !.sources = [i \in 1..Len(r.sources) |-> to_source_match(r.sources[i])],
              !.best_match = IF r.best_match = NoSource THEN NoSource
                             ELSE to_source_match(r.best_match)]

\* variant: only quotations are put on the list
collect_QuotationsOnly(results, response) ==
    IF response.is_quotation THEN Append(results, response) ELSE results

\* results.append(response)
collect(results, response) == Append(results, response)

\* quotation_count after the loop
quotation_count(results) == Cardinality({i \in DOMAIN results : results[i].is_quotation})

\* POST /detect/batch arrives: the request is valid, the detector is fetched
BatchRequest ==
    /\ pc = "idle"
    /\ \E texts \in SeqsFrom1(BatchTexts, MaxBatch), m \in BatchConfidences, mode \in Modes :
          /\ batch' = [NoBatch EXCEPT !.active = TRUE, !.texts = texts,
                                      !.min_confidence = m, !.mode = mode]
          /\ detectors' = get_detector(detectors, mode)
    /\ pc' = "batch"
    /\ UNCHANGED <<min_similarity, api_key_set, model_loads, memo, callVars,
                   store, ingest, norm, shared>>

\* the loop takes the next text and calls detect
BatchDetect ==
    /\ pc = "batch"
    /\ Len(batch.results) < Len(batch.texts)
    /\ entry' = "batch"
    /\ req' = [text |-> batch.texts[Len(batch.results) + 1],
               min_confidence |-> batch.min_confidence,
               include_all_candidates |-> FALSE, mode |-> batch.mode]
    /\ pc' = "search"
    /\ UNCHANGED <<engineVars, searchFailed, candidates, sources, llm, verification,
                   classified, result, status, steps, sideVars>>

\* detect has returned inside the loop: the result is rendered and kept, or
\* rendering raises and the route answers 500
BatchCollect ==
    /\ pc = "returned"
    /\ batch.active
    /\ IF result_to_response(result) = "200"
       THEN /\ batch' = [batch EXCEPT
                            !.detected = Append(batch.detected, [req |-> req, result |-> result]),
                            !.results = collect(batch.results, to_response(result))]
            /\ ResetCall
            /\ pc' = "batch"
       ELSE /\ batch' = [batch EXCEPT !.results = <<>>]
            /\ status' = "500"
            /\ pc' = "responded"
            /\ UNCHANGED <<entry, req, searchFailed, candidates, sources, llm,
                           verification, classified, result, steps>>
    /\ UNCHANGED <<engineVars, store, ingest, norm, shared>>

\* the loop is over: the BatchDetectResponse is returned
BatchRespond ==
    /\ pc = "batch"
    /\ Len(batch.results) >= Len(batch.texts)
    /\ batch' = [batch EXCEPT !.total_processed = Len(batch.texts),
                              !.total_quotations = quotation_count(batch.results)]
    /\ status' = "200"
    /\ pc' = "responded"
    /\ UNCHANGED <<engineVars, entry, req, searchFailed, candidates, sources, llm,
                   verification, classified, result, steps, store, ingest, norm, shared>>

\* the same process serves the next batch request
BatchDone ==
    /\ pc = "responded"
    /\ pc' = "idle"
    /\ batch' = NoBatch
    /\ ResetCall
    /\ UNCHANGED <<engineVars, store, ingest, norm, shared>>

BatchNext ==
    \/ BatchRequest
    \/ BatchDetect
    \/ EngineSearch
    \/ EngineVerify
    \/ HeuristicClassify
    \/ ConfidenceFloor
    \/ SourceShaping
    \/ BatchCollect
    \/ BatchRespond
    \/ BatchDone

SpecBatch == Init /\ [][BatchNext]_vars

\* C28: batch detection returns one result per input text, in input order:
\* as many results as texts, result i what detect returned for text i with the
\* request's min_confidence, total_processed the number of texts,
\* total_quotations the number of results with is_quotation = true; when the
\* detection of a text raises, no partial result list is returned.
C28_BatchResults ==
    (pc = "responded" /\ batch.active) =>
        /\ status \in {"200", "500"}
        /\ status = "200" =>
              /\ Len(batch.results) = Len(batch.texts)
              /\ \A i \in DOMAIN batch.results :
                    /\ batch.results[i].input_text = batch.texts[i]
                    /\ batch.detected[i].req.text = batch.texts[i]
                    /\ batch.detected[i].req.min_confidence = batch.min_confidence
                    /\ Verdict(batch.results[i]) = Verdict(batch.detected[i].result)
                    /\ Len(batch.results[i].sources) = Len(batch.detected[i].result.sources)
                    /\ batch.results[i].best_match.reference
                          = batch.detected[i].result.best_match.reference
              /\ batch.total_processed = Len(batch.texts)
              /\ batch.total_quotations
                    = Cardinality({i \in DOMAIN batch.results : batch.results[i].is_quotation})
        /\ status = "500" => batch.results = <<>>

\* two texts, the first a quotation and the second not, answered in order
C28_Witness ==
    /\ pc = "responded"
    /\ status = "200"
    /\ batch.texts = <<"quote", "max">>
    /\ batch.results[1].is_quotation
    /\ ~batch.results[2].is_quotation
    /\ batch.total_processed = 2
    /\ batch.total_quotations = 1

\* positions of the sources that carry the reference ref
Carrying(ref) == {i \in DOMAIN sources : sources[i].reference = ref}

\* C29: in llm mode, when the verdict names the reference of a retrieved
\* candidate, best_match is the first candidate with that reference in
\* retrieval order, also when several editions share it; otherwise best_match
\* is the top candidate when the verdict says is_quotation = true and absent
\* when it does not; a best reference of "none" in any letter case is no
\* reference.
C29_BestMatchResolution ==
    (Returned /\ req.mode = "llm" /\ llm.kind \notin {"none", "no_api_key"}
        /\ candidates # <<>>) =>
        LET ref == verification.best_match_reference
            hits == Carrying(ref)
        IN  /\ DictGet(llm.lines, "BEST_REFERENCE", "none") \in {"none", "None", "NONE"}
                  => ref = NoneRef
            /\ ref = NoneRef => hits = {}
            /\ result.best_match =
                  IF hits # {}
                  THEN sources[CHOOSE i \in hits : \A j \in hits : i <= j]
                  ELSE IF verification.is_quotation THEN sources[1] ELSE NoSource

\* the verdict names a reference that two retrieved editions carry, neither
\* of them the top candidate
C29_Witness ==
    /\ Returned
    /\ req.mode = "llm"
    /\ llm.kind = "reply"
    /\ \E i, j \in Carrying(verification.best_match_reference) :
          /\ 1 < i
          /\ i < j
          /\ sources[i].source_edition # sources[j].source_edition
          /\ result.best_match = sources[i]
          /\ \A k \in 1..(i - 1) : sources[k].reference # sources[i].reference

\* ---- bulk ingestion: add_verses_batch of QdrantManager and of Mem0Manager
IngestImpls == {"qdrant", "mem0"}
\* batch_size is an int the callers pass on unchecked (--batch-size)
BatchSizes == (-1)..MaxIngest

\* verses[i:i + batch_size] as the positions of the verses, counted from 1
Slice(i, batch_size, total) == (i + 1)..Min(i + batch_size, total)

\* range(0, total, batch_size) has a value at i
InRange(i, batch_size, total) == batch_size > 0 /\ i < total

\* add_verses_batch is called: total, added and failed are set and the range
\* is built, which raises ValueError for a step of zero
IngestCall ==
    /\ pc = "idle"
    /\ ingest.outcome = "none"
    /\ \E impl \in IngestImpls, n \in 0..MaxIngest, b \in BatchSizes :
          \E fails \in SUBSET (1..n) :
              ingest' = [NoIngest EXCEPT !.impl = impl, !.verses = n, !.batch_size = b,
                                         !.fails = fails, !.total = n,
                                         !.outcome = IF b = 0 THEN "raised" ELSE "running"]
    /\ UNCHANGED <<pc, engineVars, callVars, store, batch, norm, shared>>

\* QdrantManager: one batch is embedded and upserted, or fails as a whole
QdrantBatch ==
    /\ ingest.impl = "qdrant"
    /\ ingest.outcome = "running"
    /\ InRange(ingest.i, ingest.batch_size, ingest.total)
    /\ LET slice == Slice(ingest.i, ingest.batch_size, ingest.total)
           len == Cardinality(slice)
           ok == slice \cap ingest.fails = {}
       IN  ingest' = [ingest EXCEPT
                        !.added = IF ok THEN @ + len ELSE @,
                        !.failed = IF ok THEN @ ELSE @ + len,
                        !.seen = @ \o [k \in 1..len |-> ingest.i + k],
                        !.i = @ + ingest.batch_size]
    /\ UNCHANGED <<pc, engineVars, callVars, store, batch, norm, shared>>

\* Mem0Manager: the verses of one batch are added one by one, each in its own
\* try block
Mem0Batch ==
    /\ ingest.impl = "mem0"
    /\ ingest.outcome = "running"
    /\ InRange(ingest.i, ingest.batch_size, ingest.total)
    /\ LET slice == Slice(ingest.i, ingest.batch_size, ingest.total)
           len == Cardinality(slice)
           bad == Cardinality(slice \cap ingest.fails)
       IN  ingest' = [ingest EXCEPT
                        !.added = @ + (len - bad),
                        !.failed = @ + bad,
                        !.seen = @ \o [k \in 1..len |-> ingest.i + k],
                        !.i = @ + ingest.batch_size]
    /\ UNCHANGED <<pc, engineVars, callVars, store, batch, norm, shared>>

\* the range is exhausted: the summary is returned
IngestReturn ==
    /\ ingest.outcome = "running"
    /\ ~InRange(ingest.i, ingest.batch_size, ingest.total)
    /\ ingest' = [ingest EXCEPT !.outcome = "returned"]
    /\ UNCHANGED <<pc, engineVars, callVars, store, batch, norm, shared>>

\* the caller has the summary or the exception; the next call may start
IngestDone ==
    /\ ingest.outcome \in {"returned", "raised"}
    /\ ingest' = NoIngest
    /\ UNCHANGED <<pc, engineVars, callVars, store, batch, norm, shared>>

IngestNext ==
    \/ IngestCall
    \/ QdrantBatch
    \/ Mem0Batch
    \/ IngestReturn
    \/ IngestDone

SpecIngest == Init /\ [][IngestNext]_vars

\* the verses of the batches of size b that hold a failing verse
InFailingBatch(n, b, fails) ==
    {v \in 1..n : \E f \in fails : (f - 1) \div b = (v - 1) \div b}

\* what the claim says of a returned summary
Accounted ==
    /\ ingest.total = ingest.verses
    /\ ingest.added + ingest.failed = ingest.total
    /\ ingest.seen = [k \in 1..ingest.verses |-> k]
    /\ ingest.batch_size > 0 =>
          ingest.failed =
              IF ingest.impl = "qdrant"
              THEN Cardinality(InFailingBatch(ingest.verses, ingest.batch_size, ingest.fails))
              ELSE Cardinality(ingest.fails)

\* C30: both add_verses_batch implementations account for every input verse
\* exactly once: on return total is the number of input verses and
\* added + failed = total, and a failure does not stop the verses after it;
\* in QdrantManager a failing batch adds its whole size to failed and nothing
\* to added, in Mem0Manager each failing verse adds one to failed.
C30_EveryVerseAccounted == ingest.outcome = "returned" => Accounted

\* the same for the calls with a batch size of at least one
C30_PositiveBatchSize ==
    (ingest.outcome = "returned" /\ ingest.batch_size >= 1) => Accounted

====
